---------------------------- MODULE Spec2Model ----------------------------
(***************************************************************************)
(* Model of the timestamp reconciliation engine of the e-book server       *)
(* scripts: the greedy matcher of stable_ts_align.py, the DP aligner, the  *)
(* gap interpolator and the proportional distributor of whisperx_align.py, *)
(* and the sentence matcher of whisperx_align_sentences.py; and of the     *)
(* entry points (main) of these scripts, of edge_tts_generate.py and of    *)
(* nllb_translate.py.                                                      *)
(*                                                                         *)
(* Times are integers counting milliseconds: the code rounds every value   *)
(* it computes to 3 decimals of a second.  A word is a sequence of         *)
(* one-character strings.  Python's 0-based indices are kept in the        *)
(* cursors; sequences are read at index + 1.                               *)
(***************************************************************************)
EXTENDS Integers, Sequences, FiniteSets

VARIABLES
    entry,       \* the script whose main runs; "none": a function called alone
    language,    \* the language argument of the script
    log,         \* the calls of collaborators made so far and their failures
    result,      \* the JSON object main prints last on stdout (None = <<>>)
    exit_code,   \* the exit status of the process, -1 while it runs
    dp,          \* the dp / backtrack tables of align_words_dp
    mode,        \* which function runs: "greedy", "dp", "dist" or "sent";
                 \* "main" while the code of main itself runs
    pc,          \* position inside the running function
    words,       \* detected tokens: st_words / transcribed
    segments,    \* coarse segments (distributor and sentence matcher)
    expected,    \* expected_words, or the expected sentences in mode "sent"
    st_idx,      \* greedy: detected cursor; distributor: seg_i; sentences: sent_idx
    exp_idx,     \* greedy and distributor: expected cursor; sentences: trans_ptr
    alignment,   \* the list align_words_dp returns
    timestamps,  \* the timestamps list before gap interpolation (None = <<>>)
    out,         \* the list the function returns
    hist         \* history, one entry per loop iteration that emitted entries:
                 \* distributor <<seg_i, exp_idx before, n_words>>,
                 \* sentences <<trans_ptr before, best_start, span_end>>

proc == <<entry, language, log, result, exit_code>>

vars == <<proc, dp, mode, pc, words, segments, expected, st_idx, exp_idx,
          alignment, timestamps, out, hist>>

-----------------------------------------------------------------------------
(* Bounds of the inputs.                                                   *)

MaxDet == 2
MaxExp == 3
\* the detected and the expected tokens of one call, together
MaxTokens == 5
MaxSeg == 2
MaxDistSeg == 3
MaxDistExp == 4
MaxSent == 2

(* Raw texts.  Detected tokens come lower-cased from the recogniser, the   *)
(* expected ones carry capitals and punctuation from the book; "." is a    *)
(* token whose normalized form is empty.                                   *)
DetVocab == { <<"a">>, <<"b">>, <<"a", "b">> }
ExpVocab == { <<"A", ".">>, <<"b">>, <<"a", "b">>, <<".">> }

(* Intervals <<start, end>> in ms.  Multiples of 4 ms: no value the code   *)
(* rounds then lies exactly between two milliseconds.                      *)
Intervals == { <<0, 4>>, <<4, 8>> }

SeqsUpTo(S, n) == UNION { [1..k -> S] : k \in 0..n }

Token(w, iv) == [word |-> w, start |-> iv[1], end |-> iv[2]]

DetTokens == { Token(w, iv) : w \in DetVocab, iv \in Intervals }

-----------------------------------------------------------------------------
(* Helpers: Python built-ins.                                              *)

Min(a, b) == IF a <= b THEN a ELSE b
Max(a, b) == IF a >= b THEN a ELSE b

\* round(num / den) and round(num / den, 3) on milliseconds, den > 0:
\* the nearest integer, an exact half going to the even one.
Round(num, den) ==
    LET q == num \div den
        r == num - q * den
    IN  IF 2 * r < den THEN q
        ELSE IF 2 * r > den THEN q + 1
        ELSE IF q % 2 = 0 THEN q ELSE q + 1

\* str.startswith
StartsWith(s, p) == Len(p) <= Len(s) /\ SubSeq(s, 1, Len(p)) = p

\* Python's `sub in s` on strings
Contains(s, sub) ==
    \E i \in 1..(Len(s) - Len(sub) + 1) : SubSeq(s, i, i + Len(sub) - 1) = sub

\* "ka" stands for one letter of a non-Latin script
IsWordChar(c) == c \in {"a", "b", "A", "B", "_", "ka"}

Lower(c) == IF c = "A" THEN "a" ELSE IF c = "B" THEN "b" ELSE c

\* re.sub(r'[^\w]', '', word).lower()
normalize(word) ==
    LET kept == SelectSeq(word, IsWordChar)
    IN  [i \in 1..Len(kept) |-> Lower(kept[i])]

\* A timestamp {"start": s, "end": e}; None is the empty tuple.
None == <<>>
TS(s, e) == <<s, e>>
Start(ts) == ts[1]
End(ts) == ts[2]

-----------------------------------------------------------------------------
(* stable_ts_align.py: _interpolate_gaps                                   *)

\* the index where the run of None entries starting at i ends (exclusive)
RECURSIVE RunEnd(_, _)
RunEnd(ts, i) ==
    IF i < Len(ts) /\ ts[i + 1] = None THEN RunEnd(ts, i + 1) ELSE i

\* line 154: 0.15 s assumed per token when a run has no resolved entry after it
GapDefaultMs == 150

\* lines 153-164: the run [start, end) filled
FillRun(ts, start, end) ==
    LET n == Len(ts)
        prev_end == IF start > 0 /\ ts[start] # None THEN End(ts[start]) ELSE 0
        next_start == IF end < n /\ ts[end + 1] # None
                      THEN Start(ts[end + 1])
                      ELSE prev_end + GapDefaultMs * (end - start)
        gap == next_start - prev_end
        count == end - start
    IN  [k \in 1..n |->
            IF start < k /\ k <= end
            THEN TS(Round(prev_end * count + (k - 1 - start) * gap, count),
                    Round(prev_end * count + (k - start) * gap, count))
            ELSE ts[k]]

RECURSIVE InterpolateFrom(_, _)
InterpolateFrom(ts, i) ==
    IF i >= Len(ts) THEN ts
    ELSE IF ts[i + 1] # None THEN InterpolateFrom(ts, i + 1)
    ELSE LET end == RunEnd(ts, i)
         IN  InterpolateFrom(FillRun(ts, i, end), end)

_interpolate_gaps(ts) == InterpolateFrom(ts, 0)

-----------------------------------------------------------------------------
(* stable_ts_align.py: align_stable_words_to_expected                      *)

\* lines 72-87: the look-ahead over detected words; the index of the last
\* detected word consumed, or -1 when the loop ends without a match
RECURSIVE LookAheadDetected(_, _, _, _)
LookAheadDetected(st, exp_norm, combined, look_ahead) ==
    IF look_ahead < Len(st) /\ Len(combined) < Len(exp_norm) + 5
    THEN LET c == combined \o normalize(st[look_ahead + 1].word)
         IN  IF c = exp_norm \/ StartsWith(c, exp_norm)
             THEN look_ahead
             ELSE LookAheadDetected(st, exp_norm, c, look_ahead + 1)
    ELSE -1

\* lines 92-109: the look-ahead over expected words; the index of the last
\* expected word consumed, or -1
RECURSIVE LookAheadExpected(_, _, _, _)
LookAheadExpected(ex, st_norm, exp_combined, exp_look) ==
    IF exp_look < Len(ex) /\ Len(exp_combined) < Len(st_norm) + 5
    THEN LET c == exp_combined \o normalize(ex[exp_look + 1])
         IN  IF c = st_norm \/ StartsWith(c, st_norm)
             THEN exp_look
             ELSE LookAheadExpected(ex, st_norm, c, exp_look + 1)
    ELSE -1

\* DirectMatch testing equality alone
DirectMatch_EqualOnly(exp_norm, st_norm) ==
    exp_norm = st_norm

\* line 63
DirectMatch(exp_norm, st_norm) ==
    \/ exp_norm = st_norm
    \/ StartsWith(exp_norm, st_norm)
    \/ StartsWith(st_norm, exp_norm)

\* lines 98-104: one detected interval divided among count expected words
SplitEvenly(ts, st_word, from, count) ==
    [k \in 1..Len(ts) |->
        IF from < k /\ k <= from + count
        THEN TS(Round(st_word.start * count
                        + (k - 1 - from) * (st_word.end - st_word.start), count),
                Round(st_word.start * count
                        + (k - from) * (st_word.end - st_word.start), count))
        ELSE ts[k]]

\* lines 122-132: the remaining expected words take the left-over detected
\* words one for one, then None
FillRemaining(ts, st, e0, s0) ==
    [k \in 1..Len(ts) |->
        IF k <= e0 THEN ts[k]
        ELSE IF s0 + (k - e0) <= Len(st)
             THEN TS(st[s0 + (k - e0)].start, st[s0 + (k - e0)].end)
             ELSE None]

\* GreedyEnter returning [] when there is no detected word
GreedyEnter_ReturnsEmpty ==
    /\ mode = "greedy" /\ pc = "start"
    /\ IF words = <<>>
       THEN /\ out' = <<>>
            /\ pc' = "done"
            /\ timestamps' = timestamps
       ELSE /\ timestamps' = [k \in 1..Len(expected) |-> None]
            /\ pc' = "loop"
            /\ out' = out
    /\ st_idx' = 0 /\ exp_idx' = 0
    /\ UNCHANGED <<proc, dp, mode, words, segments, expected, alignment, hist>>

\* lines 47-52
GreedyEnter ==
    /\ mode = "greedy" /\ pc = "start"
    /\ IF words = <<>>
       THEN /\ out' = [k \in 1..Len(expected) |-> TS(0, 0)]
            /\ pc' = "done"
            /\ timestamps' = timestamps
       ELSE /\ timestamps' = [k \in 1..Len(expected) |-> None]
            /\ pc' = "loop"
            /\ out' = out
    /\ st_idx' = 0 /\ exp_idx' = 0
    /\ UNCHANGED <<proc, dp, mode, words, segments, expected, alignment, hist>>

\* lines 57-119: one iteration of the main loop
GreedyStep ==
    /\ mode = "greedy" /\ pc = "loop"
    /\ exp_idx < Len(expected) /\ st_idx < Len(words)
    /\ LET exp_norm == normalize(expected[exp_idx + 1])
           st_word == words[st_idx + 1]
           st_norm == normalize(st_word.word)
           la == LookAheadDetected(words, exp_norm, st_norm, st_idx + 1)
           el == LookAheadExpected(expected, st_norm, exp_norm, exp_idx + 1)
       IN  IF DirectMatch(exp_norm, st_norm)
           THEN /\ timestamps' = [timestamps EXCEPT
                                    ![exp_idx + 1] = TS(st_word.start, st_word.end)]
                /\ exp_idx' = exp_idx + 1
                /\ st_idx' = st_idx + 1
           ELSE IF la >= 0
           THEN /\ timestamps' = [timestamps EXCEPT
                                    ![exp_idx + 1] = TS(st_word.start, words[la + 1].end)]
                /\ exp_idx' = exp_idx + 1
                /\ st_idx' = la + 1
           ELSE IF el >= 0
           THEN /\ timestamps' = SplitEvenly(timestamps, st_word, exp_idx,
                                             el - exp_idx + 1)
                /\ exp_idx' = el + 1
                /\ st_idx' = st_idx + 1
           ELSE /\ timestamps' = [timestamps EXCEPT
                                    ![exp_idx + 1] = TS(st_word.start, st_word.end)]
                /\ exp_idx' = exp_idx + 1
                /\ st_idx' = st_idx + 1
    /\ UNCHANGED <<proc, dp, mode, pc, words, segments, expected, alignment, out, hist>>

\* lines 121-137: the main loop has ended; fill, interpolate, return
GreedyFinish ==
    /\ mode = "greedy" /\ pc = "loop"
    /\ ~(exp_idx < Len(expected) /\ st_idx < Len(words))
    /\ LET filled == FillRemaining(timestamps, words, exp_idx, st_idx)
       IN  /\ timestamps' = filled
           /\ out' = _interpolate_gaps(filled)
           /\ exp_idx' = Len(expected)
           /\ st_idx' = Min(Len(words), st_idx + (Len(expected) - exp_idx))
    /\ pc' = "done"
    /\ UNCHANGED <<proc, dp, mode, words, segments, expected, alignment, hist>>

-----------------------------------------------------------------------------
(* whisperx_align.py: align_words_dp                                       *)

\* float('-inf'): below every score the bounded inputs can reach
NegInf == -1000000
GAP_PENALTY == -1
MATCH_SCORE == 2
MISMATCH_PENALTY == -1
\* the transcribed index of an expected word left unmatched: None
NoIdx == -1

\* line 75: min(max(50, m // 4), m)
MinBand == 50
BandDiv == 4
Bandwidth(m) == Min(Max(MinBand, m \div BandDiv), m)

\* line 97
DiagJ(i, n, m) == IF n > 0 THEN Round(i * m, n) ELSE i
\* line 98
JLo(diag_j, bandwidth) == Max(1, diag_j - bandwidth)
\* JHi with the window ending at the diagonal
JHi_AtDiagonal(diag_j, bandwidth, m) == Min(m, diag_j)

\* line 99
JHi(diag_j, bandwidth, m) == Min(m, diag_j + bandwidth)

\* Score without the test that both normalized forms are non-empty
Score_NoEmptyGuard(t_norm, e_norm) ==
    IF t_norm = e_norm THEN MATCH_SCORE
    ELSE IF Contains(e_norm, t_norm) \/ Contains(t_norm, e_norm)
         THEN MATCH_SCORE \div 2
         ELSE MISMATCH_PENALTY

\* lines 104-109
Score(t_norm, e_norm) ==
    IF t_norm = e_norm THEN MATCH_SCORE
    ELSE IF /\ t_norm # <<>> /\ e_norm # <<>>
            /\ (Contains(e_norm, t_norm) \/ Contains(t_norm, e_norm))
         THEN MATCH_SCORE \div 2
         ELSE MISMATCH_PENALTY

Max3(a, b, c) == Max(a, Max(b, c))

\* Cell recording, among equal options, the skip of the expected token first
Cell_PrefersSkipExpected(prev, row, j, score) ==
    LET diag == IF prev[j - 1].v > NegInf THEN prev[j - 1].v + score ELSE NegInf
        up == IF prev[j].v > NegInf THEN prev[j].v + GAP_PENALTY ELSE NegInf
        left == IF row[j - 1].v > NegInf THEN row[j - 1].v + GAP_PENALTY ELSE NegInf
        best == Max3(diag, up, left)
    IN  [v |-> best,
         bt |-> IF best = left THEN 2 ELSE IF best = up THEN 1 ELSE 0]

\* Cell without the option of skipping the expected token
Cell_NoSkipExpected(prev, row, j, score) ==
    LET diag == IF prev[j - 1].v > NegInf THEN prev[j - 1].v + score ELSE NegInf
        up == IF prev[j].v > NegInf THEN prev[j].v + GAP_PENALTY ELSE NegInf
        best == Max(diag, up)
    IN  [v |-> best, bt |-> IF best = diag THEN 0 ELSE 1]

\* lines 111-123: the cell (i, j) from its three neighbours
Cell(prev, row, j, score) ==
    LET diag == IF prev[j - 1].v > NegInf THEN prev[j - 1].v + score ELSE NegInf
        up == IF prev[j].v > NegInf THEN prev[j].v + GAP_PENALTY ELSE NegInf
        left == IF row[j - 1].v > NegInf THEN row[j - 1].v + GAP_PENALTY ELSE NegInf
        best == Max3(diag, up, left)
    IN  [v |-> best,
         bt |-> IF best = diag THEN 0 ELSE IF best = up THEN 1 ELSE 2]

\* lines 101-123: the inner loop from column j to j_hi
RECURSIVE FillCells(_, _, _, _, _, _)
FillCells(row, prev, t_norm, ex, j, j_hi) ==
    IF j > j_hi THEN row
    ELSE FillCells([row EXCEPT ![j] = Cell(prev, row, j,
                                         Score(t_norm, normalize(ex[j])))],
                   prev, t_norm, ex, j + 1, j_hi)

\* lines 81-91: row 0, the cumulative gap cost
Row0(m) == [j \in 0..m |-> [v |-> j * GAP_PENALTY, bt |-> IF j = 0 THEN 0 ELSE 2]]

\* lines 85-87 and 93-123: row i from row i - 1.  With full, every column
\* 1..m is evaluated (the recurrence without banding); else the band.
NextRow(tr, ex, i, prev, full) ==
    LET n == Len(tr)
        m == Len(ex)
        diag_j == DiagJ(i, n, m)
        j_lo == IF full THEN 1 ELSE JLo(diag_j, Bandwidth(m))
        j_hi == IF full THEN m ELSE JHi(diag_j, Bandwidth(m), m)
        blank == [j \in 0..m |->
                    IF j = 0 THEN [v |-> prev[0].v + GAP_PENALTY, bt |-> 1]
                    ELSE [v |-> NegInf, bt |-> 0]]
    IN  FillCells(blank, prev, normalize(tr[i].word), ex, j_lo, j_hi)

\* the rows 0..n of dp and backtrack, as a sequence read at i + 1
RECURSIVE BuildRows(_, _, _, _)
BuildRows(tr, ex, rows, full) ==
    IF Len(rows) = Len(tr) + 1 THEN rows
    ELSE BuildRows(tr, ex,
                   Append(rows, NextRow(tr, ex, Len(rows), rows[Len(rows)], full)),
                   full)

DPTable(tr, ex, full) == BuildRows(tr, ex, <<Row0(Len(ex))>>, full)

\* Backtrack appending (j - 1, i) on a diagonal step
RECURSIVE Backtrack_OffByOne(_, _, _)
Backtrack_OffByOne(tab, i, j) ==
    IF ~(i > 0 \/ j > 0) THEN <<>>
    ELSE IF i > 0 /\ j > 0 /\ tab[i + 1][j].bt = 0
         THEN Append(Backtrack_OffByOne(tab, i - 1, j - 1), <<j - 1, i>>)
    ELSE IF i > 0 /\ (j = 0 \/ tab[i + 1][j].bt = 1)
         THEN Backtrack_OffByOne(tab, i - 1, j)
    ELSE Append(Backtrack_OffByOne(tab, i, j - 1), <<j - 1, -1>>)

\* Backtrack appending a pair when it skips a detected token
RECURSIVE Backtrack_PairForSkipped(_, _, _)
Backtrack_PairForSkipped(tab, i, j) ==
    IF ~(i > 0 \/ j > 0) THEN <<>>
    ELSE IF i > 0 /\ j > 0 /\ tab[i + 1][j].bt = 0
         THEN Append(Backtrack_PairForSkipped(tab, i - 1, j - 1), <<j - 1, i - 1>>)
    ELSE IF i > 0 /\ (j = 0 \/ tab[i + 1][j].bt = 1)
         THEN Append(Backtrack_PairForSkipped(tab, i - 1, j), <<j - 1, i - 1>>)
    ELSE Append(Backtrack_PairForSkipped(tab, i, j - 1), <<j - 1, NoIdx>>)

\* lines 126-139: the pairs <<expected index, transcribed index>> in
\* expected order
RECURSIVE Backtrack(_, _, _)
Backtrack(tab, i, j) ==
    IF ~(i > 0 \/ j > 0) THEN <<>>
    ELSE IF i > 0 /\ j > 0 /\ tab[i + 1][j].bt = 0
         THEN Append(Backtrack(tab, i - 1, j - 1), <<j - 1, i - 1>>)
    ELSE IF i > 0 /\ (j = 0 \/ tab[i + 1][j].bt = 1)
         THEN Backtrack(tab, i - 1, j)
    ELSE Append(Backtrack(tab, i, j - 1), <<j - 1, NoIdx>>)

align_words_dp(tr, ex) == Backtrack(DPTable(tr, ex, FALSE), Len(tr), Len(ex))

-----------------------------------------------------------------------------
(* whisperx_align.py: interpolate_timestamps                               *)

\* lines 150-157: the first pass
RECURSIVE AssignMatched(_, _, _, _)
AssignMatched(ts, al, tr, k) ==
    IF k > Len(al) THEN ts
    ELSE LET exp_i == al[k][1]
             trans_i == al[k][2]
         IN  IF trans_i # NoIdx /\ exp_i < Len(ts)
             THEN AssignMatched(
                    [ts EXCEPT ![exp_i + 1] = TS(Round(tr[trans_i + 1].start, 1),
                                                 Round(tr[trans_i + 1].end, 1))],
                    al, tr, k + 1)
             ELSE AssignMatched(ts, al, tr, k + 1)

\* line 172: seconds assumed per token when a run has no resolved entry after it
DpGapDefaultMs == 100

\* InterpolateRun with the loop one iteration short: range(count - 1)
InterpolateRun_ShortLoop(ts, run_start, run_end) ==
    LET expected_count == Len(ts)
        prev_end == IF run_start > 0 /\ ts[run_start] # None
                    THEN End(ts[run_start]) ELSE 0
        next_start == IF run_end < expected_count /\ ts[run_end + 1] # None
                      THEN Start(ts[run_end + 1])
                      ELSE prev_end + 100 * (run_end - run_start)
        gap == next_start - prev_end
        count == run_end - run_start
    IN  [idx \in 1..expected_count |->
            IF run_start < idx /\ idx < run_end
            THEN TS(Round(prev_end * count + (idx - 1 - run_start) * gap, count),
                    Round(prev_end * count + (idx - run_start) * gap, count))
            ELSE ts[idx]]

\* InterpolateRun dividing the gap by count + 1
InterpolateRun_Fencepost(ts, run_start, run_end) ==
    LET expected_count == Len(ts)
        prev_end == IF run_start > 0 /\ ts[run_start] # None
                    THEN End(ts[run_start]) ELSE 0
        next_start == IF run_end < expected_count /\ ts[run_end + 1] # None
                      THEN Start(ts[run_end + 1])
                      ELSE prev_end + 100 * (run_end - run_start)
        gap == next_start - prev_end
        count == run_end - run_start + 1
    IN  [idx \in 1..expected_count |->
            IF run_start < idx /\ idx <= run_end
            THEN TS(Round(prev_end * count + (idx - 1 - run_start) * gap, count),
                    Round(prev_end * count + (idx - run_start) * gap, count))
            ELSE ts[idx]]

\* InterpolateRun with the default right boundary not scaled by the run length
InterpolateRun_NoRunLength(ts, run_start, run_end) ==
    LET expected_count == Len(ts)
        prev_end == IF run_start > 0 /\ ts[run_start] # None
                    THEN End(ts[run_start]) ELSE 0
        next_start == IF run_end < expected_count /\ ts[run_end + 1] # None
                      THEN Start(ts[run_end + 1])
                      ELSE prev_end + 100
        gap == next_start - prev_end
        count == run_end - run_start
    IN  [idx \in 1..expected_count |->
            IF run_start < idx /\ idx <= run_end
            THEN TS(Round(prev_end * count + (idx - 1 - run_start) * gap, count),
                    Round(prev_end * count + (idx - run_start) * gap, count))
            ELSE ts[idx]]

\* InterpolateRun with the left boundary always 0.0
InterpolateRun_NoPrevEnd(ts, run_start, run_end) ==
    LET expected_count == Len(ts)
        prev_end == 0
        next_start == IF run_end < expected_count /\ ts[run_end + 1] # None
                      THEN Start(ts[run_end + 1])
                      ELSE prev_end + 100 * (run_end - run_start)
        gap == next_start - prev_end
        count == run_end - run_start
    IN  [idx \in 1..expected_count |->
            IF run_start < idx /\ idx <= run_end
            THEN TS(Round(prev_end * count + (idx - 1 - run_start) * gap, count),
                    Round(prev_end * count + (idx - run_start) * gap, count))
            ELSE ts[idx]]

\* lines 171-183: the run [run_start, run_end) filled
InterpolateRun(ts, run_start, run_end) ==
    LET expected_count == Len(ts)
        prev_end == IF run_start > 0 /\ ts[run_start] # None
                    THEN End(ts[run_start]) ELSE 0
        next_start == IF run_end < expected_count /\ ts[run_end + 1] # None
                      THEN Start(ts[run_end + 1])
                      ELSE prev_end + DpGapDefaultMs * (run_end - run_start)
        gap == next_start - prev_end
        count == run_end - run_start
    IN  [idx \in 1..expected_count |->
            IF run_start < idx /\ idx <= run_end
            THEN TS(Round(prev_end * count + (idx - 1 - run_start) * gap, count),
                    Round(prev_end * count + (idx - run_start) * gap, count))
            ELSE ts[idx]]

\* lines 159-183: the second pass
RECURSIVE InterpolateMissing(_, _)
InterpolateMissing(ts, i) ==
    IF i >= Len(ts) THEN ts
    ELSE IF ts[i + 1] # None THEN InterpolateMissing(ts, i + 1)
    ELSE LET run_end == RunEnd(ts, i)
         IN  InterpolateMissing(InterpolateRun(ts, i, run_end), run_end)

\* the call of align_words_dp (main, line 346): alignment is what
\* align_words_dp(words, expected) returns, dp the tables it has built
DPAlign ==
    /\ mode = "dp" /\ pc = "start"
    /\ dp' = DPTable(words, expected, FALSE)
    /\ alignment' = Backtrack(dp', Len(words), Len(expected))
    /\ pc' = "aligned"
    /\ UNCHANGED <<proc, mode, words, segments, expected, st_idx, exp_idx,
                   timestamps, out, hist>>

\* the call of interpolate_timestamps (main, line 349)
DPInterpolate ==
    /\ mode = "dp" /\ pc = "aligned"
    /\ LET first == AssignMatched([k \in 1..Len(expected) |-> None],
                                  alignment, words, 1)
       IN  /\ timestamps' = first
           /\ out' = InterpolateMissing(first, 0)
    /\ pc' = "done"
    /\ UNCHANGED <<proc, dp, mode, words, segments, expected, st_idx, exp_idx,
                   alignment, hist>>

-----------------------------------------------------------------------------
(* whisperx_align.py: distribute_segments_to_words                         *)

\* line 197: seconds per word when there is no segment or no expected word
NoSegmentDurMs == 500
\* line 249: seconds per word once the segments are used up
ExtendDurMs == 300

\* line 212: max(len(seg_words), 1)
SegWordCount(seg) == Max(Len(seg.text), 1)

RECURSIVE SumCounts(_, _)
SumCounts(segs, k) ==
    IF k = 0 THEN 0 ELSE SumCounts(segs, k - 1) + SegWordCount(segs[k])

\* line 214
TotalSegWords(segs) == SumCounts(segs, Len(segs))

\* NWords giving the last segment its proportional share like the others
NWords_NoRemainder(segs, seg_i, total_expected, e) ==
    Min(Max(1, Round(SegWordCount(segs[seg_i + 1]) * total_expected,
                     TotalSegWords(segs))),
        total_expected - e)

\* lines 223-229: the number of expected words of segment seg_i (0-based)
NWords(segs, seg_i, total_expected, e) ==
    IF seg_i = Len(segs) - 1
    THEN total_expected - e
    ELSE Min(Max(1, Round(SegWordCount(segs[seg_i + 1]) * total_expected,
                          TotalSegWords(segs))),
             total_expected - e)

\* SegmentWords with word_dur = seg_dur // n_words
SegmentWords_FloorDur(seg_start, seg_end, n_words) ==
    [k \in 1..n_words |->
        TS(seg_start + (k - 1) * ((seg_end - seg_start) \div n_words),
           seg_start + k * ((seg_end - seg_start) \div n_words))]

\* lines 234-241: the timestamps of the n_words words of one segment
SegmentWords(seg_start, seg_end, n_words) ==
    [k \in 1..n_words |->
        TS(Round(seg_start * n_words + (k - 1) * (seg_end - seg_start), n_words),
           Round(seg_start * n_words + k * (seg_end - seg_start), n_words))]

\* lines 245-251: timestamps extended by 0.3 s per remaining word
RECURSIVE ExtendFromLast(_, _)
ExtendFromLast(ts, total_expected) ==
    IF Len(ts) >= total_expected THEN ts
    ELSE LET last_end == IF ts # <<>> THEN End(ts[Len(ts)]) ELSE 0
         IN  ExtendFromLast(Append(ts, TS(last_end, last_end + ExtendDurMs)),
                            total_expected)

\* lines 196-219
DistEnter ==
    /\ mode = "dist" /\ pc = "start"
    /\ IF segments = <<>> \/ expected = <<>>
       THEN /\ out' = [i \in 1..Len(expected) |->
                          TS((i - 1) * NoSegmentDurMs, i * NoSegmentDurMs)]
            /\ pc' = "done"
       ELSE /\ out' = <<>>
            /\ pc' = "loop"
    /\ st_idx' = 0 /\ exp_idx' = 0
    /\ UNCHANGED <<proc, dp, mode, words, segments, expected, alignment, timestamps, hist>>

\* lines 221-242: one iteration of the loop over the segments; hist keeps
\* <<seg_i, exp_idx before, n_words>>
DistSegment ==
    /\ mode = "dist" /\ pc = "loop"
    /\ st_idx < Len(segments)
    /\ LET seg == segments[st_idx + 1]
           n_words == NWords(segments, st_idx, Len(expected), exp_idx)
       IN  IF n_words <= 0
           THEN UNCHANGED <<out, exp_idx, hist>>
           ELSE /\ out' = out \o SegmentWords(seg.start, seg.end, n_words)
                /\ exp_idx' = exp_idx + n_words
                /\ hist' = Append(hist, <<st_idx, exp_idx, n_words>>)
    /\ st_idx' = st_idx + 1
    /\ UNCHANGED <<proc, dp, mode, pc, words, segments, expected, alignment, timestamps>>

\* lines 244-253: the loop has ended; extend, return
DistFinish ==
    /\ mode = "dist" /\ pc = "loop"
    /\ st_idx = Len(segments)
    /\ out' = ExtendFromLast(out, Len(expected))
    /\ exp_idx' = Max(exp_idx, Len(expected))
    /\ pc' = "done"
    /\ UNCHANGED <<proc, dp, mode, words, segments, expected, st_idx, alignment,
                   timestamps, hist>>

-----------------------------------------------------------------------------
(* whisperx_align_sentences.py: match_segments_to_sentences                *)

\* line 29: re.sub(r'[^\w\s]', '', text.lower()).strip(), on one word
normalize_text(text) ==
    LET lowered == [i \in 1..Len(text) |-> Lower(text[i])]
    IN  SelectSeq(lowered, IsWordChar)

\* lines 42-48: the timed words of one segment
SegTimedWords(seg) ==
    LET timed == SelectSeq(seg.words, LAMBDA w : w.timed)
    IN  [k \in 1..Len(timed) |->
            [word |-> normalize_text(timed[k].word),
             start |-> timed[k].start, end |-> timed[k].end]]

\* lines 53-64: the words of a segment's text, its duration divided evenly
SegTextWords(seg) ==
    LET words_in_seg == seg.text
        cnt == Len(words_in_seg)
    IN  [k \in 1..cnt |->
            [word |-> normalize_text(words_in_seg[k]),
             start |-> Round(seg.start * cnt + (k - 1) * (seg.end - seg.start), cnt),
             end |-> Round(seg.start * cnt + k * (seg.end - seg.start), cnt)]]

RECURSIVE FlattenTimed(_, _)
FlattenTimed(segs, k) ==
    IF k = 0 THEN <<>> ELSE FlattenTimed(segs, k - 1) \o SegTimedWords(segs[k])

RECURSIVE FlattenText(_, _)
FlattenText(segs, k) ==
    IF k = 0 THEN <<>> ELSE FlattenText(segs, k - 1) \o SegTextWords(segs[k])

\* lines 40-64
TransWords(segs) ==
    LET timed == FlattenTimed(segs, Len(segs))
    IN  IF timed # <<>> THEN timed ELSE FlattenText(segs, Len(segs))

\* StartScore counting every word of the sentence
RECURSIVE StartScore_AllWords(_, _, _, _)
StartScore_AllWords(tw, sent_words, start, k) ==
    IF k >= Len(sent_words) THEN 0
    ELSE (IF start + k < Len(tw) /\ tw[start + k + 1].word = sent_words[k + 1]
          THEN 1 ELSE 0)
         + StartScore_AllWords(tw, sent_words, start, k + 1)

\* line 82: sent_words[:5]
ScoredWords == 5
\* line 79: len(sent_words) * 3
WindowFactor == 3

\* lines 81-84: the score of position start
RECURSIVE StartScore(_, _, _, _)
StartScore(tw, sent_words, start, k) ==
    IF k >= Min(ScoredWords, Len(sent_words)) THEN 0
    ELSE (IF start + k < Len(tw) /\ tw[start + k + 1].word = sent_words[k + 1]
          THEN 1 ELSE 0)
         + StartScore(tw, sent_words, start, k + 1)

\* lines 80-87: the scan from position start to stop - 1
RECURSIVE ScanStarts(_, _, _, _, _, _)
ScanStarts(tw, sent_words, start, stop, best_start, best_score) ==
    IF start >= stop THEN best_start
    ELSE LET score == StartScore(tw, sent_words, start, 0)
         IN  IF score > best_score
             THEN ScanStarts(tw, sent_words, start + 1, stop, start, score)
             ELSE ScanStarts(tw, sent_words, start + 1, stop, best_start, best_score)

\* BestStart scanning range(0, search_end)
BestStart_FromZero(tw, sent_words, trans_ptr) ==
    LET search_end == Min(trans_ptr + Len(sent_words) * 3, Len(tw))
    IN  ScanStarts(tw, sent_words, 0, Min(search_end, Len(tw)), trans_ptr, 0)

\* lines 76-87
BestStart(tw, sent_words, trans_ptr) ==
    LET search_end == Min(trans_ptr + Len(sent_words) * WindowFactor, Len(tw))
    IN  ScanStarts(tw, sent_words, trans_ptr, Min(search_end, Len(tw)),
                   trans_ptr, 0)

\* line 90
SpanEnd(tw, sent_words, best_start) == Min(best_start + Len(sent_words), Len(tw))

\* StartTime giving the end of the stream once the stream is exhausted
StartTime_EndOfStream(tw, best_start) ==
    IF best_start < Len(tw) THEN tw[best_start + 1].start
    ELSE IF tw # <<>> THEN tw[Len(tw)].end ELSE 0

\* line 92
StartTime(tw, best_start) ==
    IF best_start < Len(tw) THEN tw[best_start + 1].start ELSE 0

\* line 93
EndTime(tw, span_end, start_time) ==
    IF span_end > 0 /\ span_end <= Len(tw) THEN tw[span_end].end ELSE start_time

\* lines 40-68
SentEnter ==
    /\ mode = "sent" /\ pc = "start"
    /\ words' = TransWords(segments)
    /\ out' = <<>>
    /\ st_idx' = 0 /\ exp_idx' = 0
    /\ pc' = "loop"
    /\ UNCHANGED <<proc, dp, mode, segments, expected, alignment, timestamps, hist>>

\* lines 70-102: one iteration of the loop over the sentences; hist keeps
\* <<trans_ptr before, best_start, span_end>>
SentStep ==
    /\ mode = "sent" /\ pc = "loop"
    /\ st_idx < Len(expected)
    /\ LET sentence == expected[st_idx + 1]
           sent_words == [k \in 1..Len(sentence) |-> normalize_text(sentence[k])]
           best_start == BestStart(words, sent_words, exp_idx)
           span_end == SpanEnd(words, sent_words, best_start)
           start_time == StartTime(words, best_start)
           end_time == EndTime(words, span_end, start_time)
       IN  IF sent_words = <<>>
           THEN UNCHANGED <<out, exp_idx, hist>>
           ELSE /\ out' = Append(out, TS(Round(start_time, 1), Round(end_time, 1)))
                /\ exp_idx' = span_end
                /\ hist' = Append(hist, <<exp_idx, best_start, span_end>>)
    /\ st_idx' = st_idx + 1
    /\ UNCHANGED <<proc, dp, mode, pc, words, segments, expected, alignment, timestamps>>

\* line 104
SentReturn ==
    /\ mode = "sent" /\ pc = "loop"
    /\ st_idx = Len(expected)
    /\ pc' = "done"
    /\ UNCHANGED <<proc, dp, mode, words, segments, expected, st_idx, exp_idx, alignment,
                   timestamps, out, hist>>

-----------------------------------------------------------------------------
(* The inputs of the functions.                                            *)

\* coarse segments of the distributor: only the word count of the text and
\* the interval are read.  A text of no word counts as one word (line 212),
\* as a text of one word does; the intervals hold one of no duration
SegIntervals == { <<0, 4>>, <<8, 8>>, <<0, 3000>> }
DistSegs == { [text |-> t, start |-> iv[1], end |-> iv[2], words |-> <<>>] :
                t \in { <<>>, << <<"b">>, <<"b">> >> }, iv \in SegIntervals }
DistExpected == { [i \in 1..k |-> <<"b">>] : k \in 0..MaxDistExp }

\* segments of the sentence matcher: a text and either no word list
\* ("text"), or one word per text word, all with times ("words") or the
\* first without ("partly"); the p-th segment spans [8(p-1), 8(p-1) + 4] ms
SegTexts == { <<>>, << <<"a">> >>, << <<"a">>, <<"B", ".">> >>,
              << <<"B", ".">>, <<"a">> >> }
SentShapes == { [text |-> t, level |-> l] :
                  t \in SegTexts, l \in {"text", "words", "partly"} }
WordEntry(w, seg_start, seg_end, k, cnt, timed) ==
    [word |-> w, timed |-> timed,
     start |-> Round(seg_start * cnt + (k - 1) * (seg_end - seg_start), cnt),
     end |-> Round(seg_start * cnt + k * (seg_end - seg_start), cnt)]
SentSeg(shape, p) ==
    LET seg_start == 8 * (p - 1)
        seg_end == 8 * (p - 1) + 4
    IN  [text |-> shape.text, start |-> seg_start, end |-> seg_end,
         words |-> IF shape.level = "text" THEN <<>>
                   ELSE [k \in 1..Len(shape.text) |->
                            WordEntry(shape.text[k], seg_start, seg_end, k,
                                      Len(shape.text),
                                      shape.level = "words" \/ k > 1)]]
SentSegments == { [p \in 1..Len(sh) |-> SentSeg(sh[p], p)] :
                    sh \in SeqsUpTo(SentShapes, MaxSeg) }
\* expected sentences, each already split into its words
Sentences == { << <<"A">> >>, << <<"b">> >>, << <<"A">>, <<"b">> >> }

-----------------------------------------------------------------------------
(* The entry points: main of stable_ts_align.py, whisperx_align.py,        *)
(* whisperx_align_sentences.py and edge_tts_generate.py.  expected holds   *)
(* the non-blank lines of the text file, stripped.  What a collaborator   *)
(* returns, or the exception it raises, is drawn when it is called.  An    *)
(* exception no handler catches ends the process with status 1 and no      *)
(* result object on stdout.                                                *)

Logged(event) == \E k \in 1..Len(log) : log[k] = event

\* what the recogniser can return as timed words
MainWords == { <<>>,
               << Token(<<"a">>, <<0, 4>>) >>,
               << Token(<<"a">>, <<0, 4>>), Token(<<"b">>, <<4, 8>>) >> }

\* what the recogniser can return as segments
MainSegs == { <<>>,
              << [text |-> << <<"a">>, <<"b">> >>, start |-> 0, end |-> 8,
                  words |-> <<>>] >>,
              << [text |-> << <<".">>, <<"b">> >>, start |-> 0, end |-> 8,
                  words |-> <<>>] >> }

\* the expected-text files of the entry points
MainExpected == { <<>>, << <<"a">> >>, << <<"A", ".">>, <<"b">> >>,
                  << <<"ka">>, <<"ka">> >> }

\* a sentence of six words, and a stream of seven that holds its first five
\* words at position 0 and all six at position 1
LongSentence == << <<"a">>, <<"a">>, <<"a">>, <<"a">>, <<"a">>, <<"b">> >>
LongText == << <<"a">>, <<"a">>, <<"a">>, <<"a">>, <<"a">>, <<"a">>, <<"b">> >>

\* what the forced alignment can return to whisperx_align_sentences.main
MainSentSegments ==
    { [p \in 1..Len(sh) |-> SentSeg(sh[p], p)] : sh \in SeqsUpTo(SentShapes, 1) }
    \cup { << SentSeg([text |-> LongText, level |-> "words"], 1) >> }

\* the sentence files of whisperx_align_sentences.main
MainSentences == SeqsUpTo(Sentences, 1) \cup { << LongSentence >> }

\* the list of output words every word-level main builds from the
\* timestamps (stable_ts_align.py 214-222, whisperx_align.py 286-294 and
\* 352-360)
BuildWords(ts, expected_words) ==
    [i \in 1..Len(expected_words) |-> IF i <= Len(ts) THEN ts[i] ELSE TS(0, 0)]

\* the success object of a word-level main
SuccessResult(ws) ==
    [success |-> TRUE, wordCount |-> Len(ws),
     duration |-> IF ws # <<>> THEN End(ws[Len(ws)]) ELSE 0]

\* an exception leaves main: traceback on stderr, status 1
Uncaught(exception) ==
    /\ log' = Append(log, exception)
    /\ exit_code' = 1
    /\ pc' = "exit"
    /\ UNCHANGED <<entry, language, result>>

\* stable_ts_align.py 167-213: read the text, load the model, transcribe,
\* collect the words, call align_stable_words_to_expected
StableMainTranscribe ==
    /\ entry = "stable_ts_align" /\ mode = "main" /\ pc = "main"
    /\ log' = log \o <<"load_model", "transcribe">>
    /\ \E w \in MainWords : words' = w
    /\ mode' = "greedy" /\ pc' = "start"
    /\ UNCHANGED <<entry, language, result, exit_code, dp, segments, expected,
                   st_idx, exp_idx, alignment, timestamps, out, hist>>

\* stable_ts_align.py 214-232
StableMainReport ==
    /\ entry = "stable_ts_align" /\ mode = "greedy" /\ pc = "done"
    /\ out' = BuildWords(out, expected)
    /\ result' = SuccessResult(out')
    /\ exit_code' = 0
    /\ pc' = "exit"
    /\ UNCHANGED <<entry, language, log, dp, mode, words, segments, expected,
                   st_idx, exp_idx, alignment, timestamps, hist>>

\* whisperx_align.py 36-40, of which the model's languages hold "en"
ALIGN_SUPPORTED_LANGS == {"en"}

RECURSIVE JoinWords(_, _)
JoinWords(ws, k) == IF k = 0 THEN <<>> ELSE JoinWords(ws, k - 1) \o ws[k]

IsLatin(ch) == ch \in {"a", "b", "A", "B"}
IsAlpha(ch) == ch \in {"a", "b", "A", "B", "ka"}

\* whisperx_align.py 43-55, on the characters of the words of text
is_latin_script(text) ==
    LET chars == JoinWords(text, Len(text))
        latin == Cardinality({k \in 1..Len(chars) : IsLatin(chars[k])})
        non_latin == Cardinality({k \in 1..Len(chars) :
                                    IsAlpha(chars[k]) /\ ~IsLatin(chars[k])})
    IN  latin > non_latin

\* whisperx_align.py 270
SampleSize == 20

\* whisperx_align.py 256-284 and 308: read the text, load the model,
\* transcribe, choose the path
WhisperxMainTranscribe ==
    /\ entry = "whisperx_align" /\ mode = "main" /\ pc = "main"
    /\ log' = log \o <<"load_model", "transcribe">>
    /\ \E segs \in MainSegs : segments' = segs
    /\ IF ~is_latin_script(SubSeq(expected, 1, Min(SampleSize, Len(expected))))
       THEN mode' = "dist" /\ pc' = "start"
       ELSE mode' = "main" /\ pc' = "align"
    /\ UNCHANGED <<entry, language, result, exit_code, dp, words, expected,
                   st_idx, exp_idx, alignment, timestamps, out, hist>>

\* whisperx_align.py 330-343: the words of the segments' texts, each
\* segment's duration divided evenly
RECURSIVE FallbackWords(_, _)
FallbackWords(segs, k) ==
    IF k = 0 THEN <<>>
    ELSE LET seg == segs[k]
             cnt == Len(seg.text)
         IN  FallbackWords(segs, k - 1) \o
             [i \in 1..cnt |->
                [word |-> seg.text[i],
                 start |-> Round(seg.start * cnt + (i - 1) * (seg.end - seg.start),
                                 cnt),
                 end |-> Round(seg.start * cnt + i * (seg.end - seg.start), cnt)]]

\* whisperx_align.py 309-346: the forced alignment inside try / except
\* ValueError, the fallback when it gave no word, the call of align_words_dp
WhisperxMainAlign ==
    /\ entry = "whisperx_align" /\ mode = "main" /\ pc = "align"
    /\ \/ /\ language \in ALIGN_SUPPORTED_LANGS
          /\ \E w \in MainWords :
                /\ words' = IF w # <<>> THEN w
                            ELSE FallbackWords(segments, Len(segments))
                /\ log' = Append(log, "align")
          /\ mode' = "dp" /\ pc' = "start"
          /\ UNCHANGED <<entry, language, result, exit_code>>
       \/ /\ language \in ALIGN_SUPPORTED_LANGS
          /\ log' = log \o <<"align", "ValueError">>
          /\ words' = FallbackWords(segments, Len(segments))
          /\ mode' = "dp" /\ pc' = "start"
          /\ UNCHANGED <<entry, language, result, exit_code>>
       \/ /\ language \in ALIGN_SUPPORTED_LANGS
          /\ Uncaught("RuntimeError")
          /\ UNCHANGED <<mode, words>>
       \/ /\ language \notin ALIGN_SUPPORTED_LANGS
          /\ words' = FallbackWords(segments, Len(segments))
          /\ mode' = "dp" /\ pc' = "start"
          /\ UNCHANGED proc
    /\ UNCHANGED <<dp, segments, expected, st_idx, exp_idx, alignment,
                   timestamps, out, hist>>

\* whisperx_align.py 286-305 and 352-370
WhisperxMainReport ==
    /\ entry = "whisperx_align" /\ mode \in {"dist", "dp"} /\ pc = "done"
    /\ out' = BuildWords(out, expected)
    /\ result' = SuccessResult(out')
    /\ exit_code' = 0
    /\ pc' = "exit"
    /\ UNCHANGED <<entry, language, log, dp, mode, words, segments, expected,
                   st_idx, exp_idx, alignment, timestamps, hist>>

\* whisperx_align_sentences.py 107-133: read the sentences, transcribe,
\* force-align (no handler), call match_segments_to_sentences
SentencesMainAlign ==
    /\ entry = "whisperx_align_sentences" /\ mode = "main" /\ pc = "main"
    /\ \/ /\ \E segs \in MainSentSegments : segments' = segs
          /\ log' = log \o <<"load_model", "transcribe", "align">>
          /\ mode' = "sent" /\ pc' = "start"
          /\ UNCHANGED <<entry, language, result, exit_code>>
       \/ /\ \E exception \in {"ValueError", "RuntimeError"} :
                /\ log' = log \o <<"load_model", "transcribe", "align", exception>>
                /\ exit_code' = 1
                /\ pc' = "exit"
          /\ UNCHANGED <<entry, language, result, mode, segments>>
    /\ UNCHANGED <<dp, words, expected, st_idx, exp_idx, alignment, timestamps,
                   out, hist>>

\* whisperx_align_sentences.py 135-139
SentencesMainReport ==
    /\ entry = "whisperx_align_sentences" /\ mode = "sent" /\ pc = "done"
    /\ result' = [success |-> TRUE, sentenceCount |-> Len(out)]
    /\ exit_code' = 0
    /\ pc' = "exit"
    /\ UNCHANGED <<entry, language, log, dp, mode, words, segments, expected,
                   st_idx, exp_idx, alignment, timestamps, out, hist>>

\* edge_tts_generate.py 54-65: read the text; empty text is refused
EdgeMain ==
    /\ entry = "edge_tts_generate" /\ mode = "main" /\ pc = "main"
    /\ IF expected = <<>>
       THEN /\ result' = [success |-> FALSE, error |-> "Empty text"]
            /\ exit_code' = 1
            /\ pc' = "exit"
       ELSE /\ pc' = "generate"
            /\ UNCHANGED <<result, exit_code>>
    /\ UNCHANGED <<entry, language, log, dp, mode, words, segments, expected,
                   st_idx, exp_idx, alignment, timestamps, out, hist>>

\* edge_tts_generate.py 25-51 and 67: one timing per word boundary the
\* engine reports
EdgeGenerate ==
    /\ entry = "edge_tts_generate" /\ mode = "main" /\ pc = "generate"
    /\ log' = Append(log, "communicate")
    /\ \E w \in MainWords :
          /\ out' = [k \in 1..Len(w) |-> TS(w[k].start, w[k].end)]
          /\ result' = [success |-> TRUE, wordCount |-> Len(w),
                        audioDuration |-> IF w # <<>> THEN w[Len(w)].end ELSE 0]
    /\ exit_code' = 0
    /\ pc' = "exit"
    /\ UNCHANGED <<entry, language, dp, mode, words, segments, expected,
                   st_idx, exp_idx, alignment, timestamps, hist>>

-----------------------------------------------------------------------------
(* nllb_translate.py, JSON mode.  A paragraph is the sequence of its       *)
(* sentences; the blank paragraph is <<>>.  The tokenizer and the          *)
(* translation model are collaborators: the tokenizer gives a token count  *)
(* or raises, the model gives a text for a chunk or raises.                *)

\* a short sentence and a long one, and the paragraphs of the input array
NllbTexts == { <<>>, <<"s">>, <<"L", "L">> }
MaxPara == 2
NllbParagraphs == SeqsUpTo(NllbTexts, MaxPara)

\* lines 124 and 138: len(tokenizer.encode(s)) of one sentence
TokenLen(s) == IF s = "L" THEN 300 ELSE 2

\* line 124: the token count of the whole text
RECURSIVE TokenCount(_)
TokenCount(text) ==
    IF text = <<>> THEN 0 ELSE TokenLen(Head(text)) + TokenCount(Tail(text))

\* line 110: max_length=512
max_length == 512
\* line 125: token_count <= 4
ShortInput == 4

\* lines 134-147: the sentences batched into chunks that fit max_length
RECURSIVE ChunkLoop(_, _, _, _, _)
ChunkLoop(sentences, k, chunks, current_chunk, current_len) ==
    IF k > Len(sentences)
    THEN IF current_chunk # <<>> THEN Append(chunks, current_chunk) ELSE chunks
    ELSE LET s == sentences[k]
             s_len == TokenLen(s)
         IN  IF current_len + s_len > max_length - 10 /\ current_chunk # <<>>
             THEN ChunkLoop(sentences, k + 1, Append(chunks, current_chunk),
                            <<s>>, s_len)
             ELSE ChunkLoop(sentences, k + 1, chunks,
                            Append(current_chunk, s), current_len + s_len)

\* lines 123-147: the chunks of a text that is not blank; a short input is
\* padded with ' .'
NllbChunks(text) ==
    LET short_input == TokenCount(text) <= ShortInput
        padded_text == IF short_input THEN Append(text, ".") ELSE text
    IN  ChunkLoop(padded_text, 1, <<>>, <<>>, 0)

\* the text of the target language for a chunk
Target(chunk) ==
    [k \in 1..Len(chunk) |-> IF chunk[k] = "s" THEN "t"
                             ELSE IF chunk[k] = "L" THEN "M" ELSE chunk[k]]

\* lines 156-172, one chunk: the model raises and the chunk itself is kept,
\* or the model returns a text, which can be empty
ChunkOutcomes(chunk) ==
    { [ok |-> FALSE, text |-> chunk],
      [ok |-> TRUE, text |-> Target(chunk)],
      [ok |-> TRUE, text |-> <<>>] }

\* every way the chunks of a text can go
ParagraphOutcomes(text) ==
    LET chunks == NllbChunks(text)
    IN  { o \in [1..Len(chunks) -> UNION { ChunkOutcomes(chunks[k]) :
                                           k \in 1..Len(chunks) }] :
            \A k \in 1..Len(chunks) : o[k] \in ChunkOutcomes(chunks[k]) }

\* line 174: ' '.join(translated_chunks)
RECURSIVE JoinChunks(_)
JoinChunks(translated_chunks) ==
    IF translated_chunks = <<>> THEN <<>>
    ELSE Head(translated_chunks) \o JoinChunks(Tail(translated_chunks))

\* line 178: the trailing '.' removed
StripDot(text) ==
    IF text # <<>> /\ text[Len(text)] = "."
    THEN SubSeq(text, 1, Len(text) - 1) ELSE text

\* lines 110-180, the tokenizer not raising: outcome[k] is what became of
\* chunk k
translate_one(text, outcome) ==
    IF text = <<>> THEN <<>>
    ELSE LET short_input == TokenCount(text) <= ShortInput
             joined == JoinChunks([k \in 1..Len(outcome) |-> outcome[k].text])
         IN  IF short_input /\ joined # <<>> THEN StripDot(joined) ELSE joined

\* the number of chunks of an outcome that raised
Failures(outcome) == Cardinality({ k \in 1..Len(outcome) : ~outcome[k].ok })

\* lines 198-224: the model is loaded once and the array is read
NllbMainLoad ==
    /\ entry = "nllb_translate" /\ mode = "main" /\ pc = "main"
    /\ \/ /\ log' = Append(log, "MODEL_READY")
          /\ pc' = "loop"
          /\ UNCHANGED <<entry, language, result, exit_code>>
       \/ Uncaught("OSError")
    /\ UNCHANGED <<dp, mode, words, segments, expected, st_idx, exp_idx,
                   alignment, timestamps, out, hist>>

\* lines 226-236, one iteration: idx is st_idx, errors is exp_idx,
\* translated is out; hist records <<1, 0>> for a paragraph that raised and
\* <<0, c>> for one returned with c chunks that raised
NllbParagraph ==
    /\ entry = "nllb_translate" /\ mode = "main" /\ pc = "loop"
    /\ st_idx < Len(expected)
    /\ LET para == expected[st_idx + 1]
       IN  \/ /\ para # <<>>
              /\ log' = Append(log, "PARAGRAPH_ERROR")
              /\ out' = Append(out, para)
              /\ exp_idx' = exp_idx + 1
              /\ hist' = Append(hist, <<1, 0>>)
           \/ \E outcome \in (IF para = <<>> THEN {<<>>}
                              ELSE ParagraphOutcomes(para)) :
                 /\ log' = log \o [k \in 1..Failures(outcome) |-> "CHUNK_ERROR"]
                 /\ out' = Append(out, translate_one(para, outcome))
                 /\ exp_idx' = exp_idx
                 /\ hist' = Append(hist, <<0, Failures(outcome)>>)
    /\ st_idx' = st_idx + 1
    /\ UNCHANGED <<entry, language, result, exit_code, dp, mode, pc, words,
                   segments, expected, alignment, timestamps>>

\* lines 238-247: the array is written and the result printed
NllbMainReport ==
    /\ entry = "nllb_translate" /\ mode = "main" /\ pc = "loop"
    /\ st_idx = Len(expected)
    /\ result' = [success |-> TRUE, paragraphs |-> Len(expected),
                  errors |-> exp_idx]
    /\ exit_code' = 0
    /\ pc' = "exit"
    /\ UNCHANGED <<entry, language, log, dp, mode, words, segments, expected,
                   st_idx, exp_idx, alignment, timestamps, out, hist>>

-----------------------------------------------------------------------------
(* The specification.                                                      *)

\* the languages of the model: English, and Swahili, a language written in
\* Latin script that ALIGN_SUPPORTED_LANGS does not hold
Languages == {"en", "sw"}

Scripts == {"stable_ts_align", "whisperx_align", "whisperx_align_sentences",
            "edge_tts_generate", "nllb_translate"}

\* a function called on its own, on every input inside the bounds
InitFunction ==
    /\ entry = "none" /\ language = "en"
    /\ mode \in {"greedy", "dp", "dist", "sent"}
    /\ pc = "start"
    /\ words \in (IF mode \in {"greedy", "dp"}
                  THEN SeqsUpTo(DetTokens, MaxDet) ELSE {<<>>})
    /\ segments \in (IF mode = "dist" THEN SeqsUpTo(DistSegs, MaxDistSeg)
                     ELSE IF mode = "sent" THEN SentSegments
                     ELSE {<<>>})
    /\ expected \in (IF mode = "dist" THEN DistExpected
                     ELSE IF mode = "sent" THEN SeqsUpTo(Sentences, MaxSent)
                     ELSE SeqsUpTo(ExpVocab, MaxExp))
    /\ mode \in {"greedy", "dp"} => Len(words) + Len(expected) <= MaxTokens

\* a script started on a text file
InitScript ==
    /\ entry \in Scripts
    /\ language \in (IF entry = "whisperx_align" THEN Languages ELSE {"en"})
    /\ mode = "main" /\ pc = "main"
    /\ words = <<>> /\ segments = <<>>
    /\ expected \in (IF entry = "whisperx_align_sentences"
                     THEN MainSentences
                     ELSE IF entry = "nllb_translate" THEN NllbParagraphs
                     ELSE MainExpected)

Init ==
    /\ InitFunction \/ InitScript
    /\ log = <<>> /\ result = None /\ exit_code = -1
    /\ dp = <<>>
    /\ st_idx = 0 /\ exp_idx = 0
    /\ alignment = <<>> /\ timestamps = <<>> /\ out = <<>> /\ hist = <<>>

Next ==
    \/ GreedyEnter \/ GreedyStep \/ GreedyFinish
    \/ DPAlign \/ DPInterpolate
    \/ DistEnter \/ DistSegment \/ DistFinish
    \/ SentEnter \/ SentStep \/ SentReturn
    \/ StableMainTranscribe \/ StableMainReport
    \/ WhisperxMainTranscribe \/ WhisperxMainAlign \/ WhisperxMainReport
    \/ SentencesMainAlign \/ SentencesMainReport
    \/ EdgeMain \/ EdgeGenerate
    \/ NllbMainLoad \/ NllbParagraph \/ NllbMainReport

Spec == Init /\ [][Next]_vars

-----------------------------------------------------------------------------
(* Properties.                                                             *)

Done == pc = "done"
WordLevel == mode \in {"greedy", "dp", "dist"}
Resolved(ts) == ts # None /\ Len(ts) = 2

\* C1: every word-level pipeline (greedy matcher, DP aligner followed by
\* the interpolator, proportional distributor) returns exactly one
\* timestamp per expected token and leaves none unresolved.
C1_OnePerExpected ==
    (Done /\ WordLevel) =>
        /\ Len(out) = Len(expected)
        /\ \A k \in 1..Len(out) : Resolved(out[k])

\* a run of the DP pipeline in which an expected word between two matched
\* ones had to be interpolated
C1_Witness ==
    /\ Done /\ mode = "dp"
    /\ Len(words) = 2 /\ Len(expected) = 3
    /\ timestamps[1] # None /\ timestamps[2] = None /\ timestamps[3] # None
    /\ Len(out) = 3

\* C2: when every detected token or segment has end >= start, every entry
\* the three word-level pipelines return has end >= start.
C2_NonNegativeDuration ==
    (Done /\ WordLevel) =>
        \A k \in 1..Len(out) : Resolved(out[k]) => End(out[k]) >= Start(out[k])

\* the concatenation of the normalized expected words from .. from + count - 1
\* (0-based from)
RECURSIVE ConcatNorm(_, _, _)
ConcatNorm(ex, from, count) ==
    IF count = 0 THEN <<>>
    ELSE ConcatNorm(ex, from, count - 1) \o normalize(ex[from + count])

\* the detected word at the cursor is the concatenation of count expected
\* words starting at the expected cursor
DetectedSpans(count) ==
    /\ mode = "greedy" /\ pc = "loop"
    /\ st_idx < Len(words)
    /\ exp_idx + count <= Len(expected)
    /\ normalize(words[st_idx + 1].word) = ConcatNorm(expected, exp_idx, count)

\* C3: a detected token whose normalized text is the concatenation of
\* count >= 2 expected tokens at the cursor has its interval divided evenly
\* among them, in order; the detected cursor advances by 1 and the expected
\* cursor by count.
C3_DetectedSpansExpected ==
    [][\A count \in 2..Len(expected) :
         DetectedSpans(count) =>
            LET w == words[st_idx + 1]
            IN  /\ st_idx' = st_idx + 1
                /\ exp_idx' = exp_idx + count
                /\ \A k \in 0..(count - 1) :
                      timestamps'[exp_idx + k + 1] =
                         TS(Round(w.start * count + k * (w.end - w.start), count),
                            Round(w.start * count + (k + 1) * (w.end - w.start),
                                  count))]_vars

\* the detected tokens equal the expected ones one for one, with strictly
\* increasing, non-overlapping intervals
IdentityInput ==
    /\ mode \in {"greedy", "dp"}
    /\ Len(words) = Len(expected)
    /\ \A i \in 1..Len(words) :
          /\ normalize(words[i].word) = normalize(expected[i])
          /\ words[i].start < words[i].end
          /\ i > 1 => words[i - 1].end <= words[i].start

\* C4: on such an input align_words_dp returns exactly the pairs (i, i) and
\* the greedy matcher gives expected token i the interval of detected token i.
C4_IdentityAlignment ==
    IdentityInput =>
        /\ (mode = "dp" /\ pc \in {"aligned", "done"}) =>
              alignment = [i \in 1..Len(expected) |-> <<i - 1, i - 1>>]
        /\ (mode = "greedy" /\ Done) =>
              out = [i \in 1..Len(expected) |-> TS(words[i].start, words[i].end)]

\* two tokens, equal after normalization only, aligned by the DP
C4_Witness ==
    /\ mode = "dp" /\ pc = "aligned"
    /\ IdentityInput
    /\ Len(words) = 2
    /\ words[1].word # expected[1]
    /\ alignment = << <<0, 0>>, <<1, 1>> >>

\* [a, b) (0-based, b exclusive) is a maximal run of unresolved entries of ts
IsRun(ts, a, b) ==
    /\ 0 <= a /\ a < b /\ b <= Len(ts)
    /\ \A j \in (a + 1)..b : ts[j] = None
    /\ a = 0 \/ ts[a] # None
    /\ b = Len(ts) \/ ts[b + 1] # None

\* the left boundary p of the run starting at a
LeftBoundary(ts, a) == IF a = 0 THEN 0 ELSE End(ts[a])

\* a gap interpolator has run on timestamps and returned out
Interpolated ==
    /\ Done
    /\ \/ mode = "dp"
       \/ mode = "greedy" /\ words # <<>>

\* C5: both gap interpolators leave resolved entries unchanged and give the
\* i-th entry of a maximal unresolved run of length k, with left boundary p
\* and right boundary n, start = p + i(n - p)/k and end = p + (i + 1)(n - p)/k
\* rounded to the millisecond: the run is contiguous, begins at p and ends at
\* n.  n is the start of the resolved entry after the run; for a run that
\* reaches the end of the array, the end the interpolator gave the run.
C5_InterpolationEvenness ==
    Interpolated =>
        /\ Len(out) = Len(timestamps)
        /\ \A idx \in 1..Len(timestamps) :
              timestamps[idx] # None => out[idx] = timestamps[idx]
        /\ \A a \in 0..Len(timestamps), b \in 0..Len(timestamps) :
              IsRun(timestamps, a, b) =>
                 LET k == b - a
                     p == LeftBoundary(timestamps, a)
                     n == IF b < Len(timestamps) THEN Start(timestamps[b + 1])
                          ELSE End(out[b])
                 IN  /\ \A i \in 0..(k - 1) :
                           out[a + i + 1] = TS(Round(p * k + i * (n - p), k),
                                               Round(p * k + (i + 1) * (n - p), k))
                     /\ Start(out[a + 1]) = p
                     /\ End(out[b]) = n
                     /\ \A j \in (a + 1)..(b - 1) : End(out[j]) = Start(out[j + 1])

\* a run of two before a resolved entry that starts at 4 ms
C5_Witness ==
    /\ Done /\ mode = "dp"
    /\ timestamps = << None, None, TS(4, 8) >>
    /\ out = << TS(0, 2), TS(2, 4), TS(4, 8) >>

\* the entries of a run [a, Len(ts)) that reaches the end of the array are
\* d ms long each, the first starting at the left boundary
TailRunsTake(d) ==
    \A a \in 0..Len(timestamps) :
        IsRun(timestamps, a, Len(timestamps)) =>
            \A i \in 0..(Len(timestamps) - a - 1) :
                out[a + i + 1] = TS(LeftBoundary(timestamps, a) + d * i,
                                    LeftBoundary(timestamps, a) + d * (i + 1))

\* C6 as stated: in both interpolators a run that reaches the end of the
\* array takes n = p + 0.15 k, 0.15 s per token.
C6_TailDefault150 == Interpolated => TailRunsTake(150)

\* C6, amended: _interpolate_gaps (greedy pipeline) gives each token of such
\* a run 0.15 s, interpolate_timestamps (DP pipeline) gives each 0.1 s.
C6_TailDefaultPerInterpolator ==
    Interpolated => TailRunsTake(IF mode = "greedy" THEN 150 ELSE 100)

\* the DP pipeline: two unresolved tokens after a resolved one ending at 8 ms
C6_Witness ==
    /\ Done /\ mode = "dp"
    /\ timestamps = << TS(4, 8), None, None >>
    /\ out = << TS(4, 8), TS(8, 108), TS(108, 208) >>

\* C7: when bandwidth >= m the window of every row i = 1..n covers the
\* columns 1..m, and align_words_dp returns what the recurrence evaluated
\* over the full grid returns.
C7_BandingNonInterference ==
    (mode = "dp" /\ pc = "aligned") =>
        LET n == Len(words)
            m == Len(expected)
        IN  Bandwidth(m) >= m =>
              /\ \A i \in 1..n :
                    /\ JLo(DiagJ(i, n, m), Bandwidth(m)) <= 1
                    /\ JHi(DiagJ(i, n, m), Bandwidth(m), m) >= m
              /\ alignment = Backtrack(DPTable(words, expected, TRUE), n, m)

\* two detected and three expected tokens: the diagonal of row 1 is
\* column 2, and one expected token stays unmatched
C7_Witness ==
    /\ mode = "dp" /\ pc = "aligned"
    /\ Len(words) = 2 /\ Len(expected) = 3
    /\ Bandwidth(3) = 3 /\ DiagJ(1, 2, 3) = 2
    /\ \E k \in 1..3 : alignment[k][2] = NoIdx
    /\ \E k \in 1..3 : alignment[k][2] = 1

RECURSIVE SumDurations(_, _, _)
SumDurations(ts, from, n) ==
    IF n = 0 THEN 0
    ELSE SumDurations(ts, from, n - 1) + (End(ts[from + n]) - Start(ts[from + n]))

Abs(x) == IF x >= 0 THEN x ELSE -x

\* C8: the tokens assigned to a segment are contiguous, do not overlap, lie
\* inside the segment, and their durations sum to the segment's duration to
\* within 1 ms.
C8_DistributorConservation ==
    mode = "dist" =>
        \A h \in 1..Len(hist) :
            LET seg == segments[hist[h][1] + 1]
                e0 == hist[h][2]
                n == hist[h][3]
            IN  /\ n >= 1 /\ e0 + n <= Len(out)
                /\ Start(out[e0 + 1]) = seg.start
                /\ End(out[e0 + n]) = seg.end
                /\ \A j \in 1..n :
                      /\ Start(out[e0 + j]) <= End(out[e0 + j])
                      /\ j < n => End(out[e0 + j]) = Start(out[e0 + j + 1])
                /\ Abs(SumDurations(out, e0, n) - (seg.end - seg.start)) <= 1

\* one segment [0.0, 3.0] over three expected words
C8_Witness ==
    /\ Done /\ mode = "dist"
    /\ Len(segments) = 1 /\ segments[1].start = 0 /\ segments[1].end = 3000
    /\ Len(expected) = 3
    /\ hist = << <<0, 0, 3>> >>
    /\ out = << TS(0, 1000), TS(1000, 2000), TS(2000, 3000) >>

\* C9: trans_ptr never decreases and never exceeds the length of the
\* sub-token stream; the start chosen for a sentence is not before the
\* pointer the previous sentence left, and its span [best_start, span_end)
\* holds no sub-token of an earlier span.
C9_PointerMonotone ==
    (mode = "sent" /\ pc # "start") =>
        /\ 0 <= exp_idx /\ exp_idx <= Len(words)
        /\ \A h \in 1..Len(hist) :
              /\ hist[h][1] <= hist[h][2]
              /\ hist[h][2] <= hist[h][3]
              /\ hist[h][3] <= Len(words)
              /\ hist[h][1] = (IF h = 1 THEN 0 ELSE hist[h - 1][3])
              /\ h = Len(hist) => exp_idx = hist[h][3]

\* the second sentence starts after a sub-token it skips
C9_Witness ==
    /\ mode = "sent" /\ Done
    /\ Len(hist) = 2
    /\ hist[1][3] > 0
    /\ hist[2][2] > hist[2][1]
    /\ hist[2][3] > hist[2][2]

\* one of the four functions has been called and has not returned
Running == mode # "main" /\ pc \notin {"done", "exit"}

\* no detected token or segment, or no expected token
Degenerate ==
    \/ expected = <<>>
    \/ mode \in {"greedy", "dp"} /\ words = <<>>
    \/ mode = "dist" /\ segments = <<>>
    \/ mode = "sent" /\ TransWords(segments) = <<>>

\* C10: on such an input each of the four functions runs to its return (no
\* step is stuck on a division by zero or an index out of range) and
\* returns one entry per expected token, each with 0 <= start <= end.
C10_DegenerateInput ==
    Degenerate =>
        /\ Running => ENABLED Next
        /\ Done =>
              /\ Len(out) = Len(expected)
              /\ \A k \in 1..Len(out) :
                    /\ Resolved(out[k])
                    /\ 0 <= Start(out[k]) /\ Start(out[k]) <= End(out[k])

\* the greedy matcher on two expected words and no detected token
C10_Witness ==
    /\ Done /\ mode = "greedy"
    /\ words = <<>> /\ Len(expected) = 2
    /\ out = << TS(0, 0), TS(0, 0) >>

\* C11: when the expected-text file holds no non-blank line, main of
\* stable_ts_align, whisperx_align and edge_tts_generate loads no model,
\* transcribes nothing, calls no matching function, and ends with a result
\* object whose success flag is false and a nonzero exit status.
C11_EmptyTextFailsFast ==
    (entry \in {"stable_ts_align", "whisperx_align", "edge_tts_generate"}
        /\ expected = <<>>) =>
        /\ ~Logged("load_model") /\ ~Logged("transcribe") /\ ~Logged("communicate")
        /\ mode = "main"
        /\ pc = "exit" =>
              /\ result # None /\ result.success = FALSE
              /\ exit_code # 0

\* the forced-alignment collaborator has been called and has raised
CollaboratorFailed == Logged("ValueError") \/ Logged("RuntimeError")

\* C12: once the forced-alignment collaborator has failed, main of
\* whisperx_align and of whisperx_align_sentences does not abort: it goes on
\* to its end and ends with status 0 and a success result, with one
\* timestamp per expected token.
C12_CollaboratorFailureNotFatal ==
    (entry \in {"whisperx_align", "whisperx_align_sentences"}
        /\ CollaboratorFailed) =>
        /\ exit_code \in {-1, 0}
        /\ pc # "exit" => ENABLED Next
        /\ pc = "exit" =>
              /\ result # None /\ result.success = TRUE
              /\ Len(out) = Len(expected)

\* the concatenation of the normalized detected words from .. from + count - 1
\* (0-based from)
RECURSIVE ConcatDetNorm(_, _, _)
ConcatDetNorm(st, from, count) ==
    IF count = 0 THEN <<>>
    ELSE ConcatDetNorm(st, from, count - 1) \o normalize(st[from + count].word)

\* the expected word at the cursor is the concatenation of count detected
\* words starting at the detected cursor
ExpectedSpans(count) ==
    /\ mode = "greedy" /\ pc = "loop"
    /\ exp_idx < Len(expected)
    /\ st_idx + count <= Len(words)
    /\ normalize(expected[exp_idx + 1]) = ConcatDetNorm(words, st_idx, count)

\* C13: an expected token whose normalized text is the concatenation of
\* count >= 2 detected tokens at the cursor gets the start of the first and
\* the end of the last of them; the expected cursor advances by 1 and the
\* detected cursor by count.
C13_ExpectedSpansDetected ==
    [][\A count \in 2..Len(words) :
         ExpectedSpans(count) =>
            /\ timestamps'[exp_idx + 1] =
                  TS(words[st_idx + 1].start, words[st_idx + count].end)
            /\ exp_idx' = exp_idx + 1
            /\ st_idx' = st_idx + count]_vars

\* align_words_dp has just returned
Aligned == mode = "dp" /\ pc = "aligned"

\* the cell (i, j) lies in the window of row i
InBand(i, j, n, m) ==
    /\ JLo(DiagJ(i, n, m), Bandwidth(m)) <= j
    /\ j <= JHi(DiagJ(i, n, m), Bandwidth(m), m)

\* v + d, minus infinity staying minus infinity
Plus(v, d) == IF v > NegInf THEN v + d ELSE NegInf

\* the scoring as the specification words it: +2 for equal normalized
\* forms, +1 when one is a substring of the other, -1 otherwise
ScoreAsStated(t_norm, e_norm) ==
    IF t_norm = e_norm THEN 2
    ELSE IF Contains(e_norm, t_norm) \/ Contains(t_norm, e_norm) THEN 1
    ELSE -1

\* the same, a partial match needing both normalized forms non-empty
ScoreNonEmpty(t_norm, e_norm) ==
    IF t_norm = e_norm THEN 2
    ELSE IF /\ t_norm # <<>> /\ e_norm # <<>>
            /\ (Contains(e_norm, t_norm) \/ Contains(t_norm, e_norm)) THEN 1
    ELSE -1

\* every evaluated cell holds the best of: the diagonal neighbour plus
\* score(detected i, expected j), the upper neighbour minus 1 (detected token
\* skipped), the left neighbour minus 1 (expected token skipped)
CellsScoredBy(score(_, _)) ==
    Aligned =>
        LET n == Len(words)
            m == Len(expected)
        IN  \A i \in 1..n, j \in 1..m :
               InBand(i, j, n, m) =>
                  dp[i + 1][j].v =
                     Max3(Plus(dp[i][j - 1].v,
                               score(normalize(words[i].word),
                                     normalize(expected[j]))),
                          Plus(dp[i][j].v, -1),
                          Plus(dp[i + 1][j - 1].v, -1))

\* C14 as stated: the diagonal score is +2 for equal normalized forms, +1
\* when they differ and one is a substring of the other, -1 otherwise, for
\* every pair of tokens, those with an empty normalized form included; a
\* skipped token costs -1.
C14_ScoringAsStated == CellsScoredBy(ScoreAsStated)

\* C14, amended: +1 needs both normalized forms non-empty; a token whose
\* normalized form is empty scores +2 against another such token and -1
\* against every other token.
C14_ScoringNonEmptyPartial == CellsScoredBy(ScoreNonEmpty)

\* in whisperx_align.main, the detected "." against the expected "A.": the
\* diagonal score is -1
C14_Witness ==
    /\ Aligned /\ entry = "whisperx_align"
    /\ Len(words) = 2 /\ Len(expected) = 2
    /\ normalize(words[1].word) = <<>> /\ normalize(expected[1]) = <<"a">>
    /\ dp[2][1].v = -1

\* the monotone alignments of n detected and m expected tokens: f[i] is the
\* expected token (1-based) paired with detected token i, 0 when i is
\* skipped; the paired expected tokens increase strictly with i
Alignments(n, m) ==
    { f \in [1..n -> 0..m] :
        \A i1 \in 1..n, i2 \in 1..n :
            (i1 < i2 /\ f[i1] # 0 /\ f[i2] # 0) => f[i1] < f[i2] }

\* the monotone alignments for every number of tokens the inputs reach
AlignmentsOf ==
    [n \in 0..MaxDet |-> [m \in 0..MaxExp |-> Alignments(n, m)]]

\* the scores of all pairs of a detected and an expected token
PairScores(tr, ex) ==
    [i \in 1..Len(tr) |->
        [j \in 1..Len(ex) |-> Score(normalize(tr[i].word), normalize(ex[j]))]]

RECURSIVE SumPairs(_, _, _)
SumPairs(f, sc, i) ==
    IF i = 0 THEN 0
    ELSE SumPairs(f, sc, i - 1) + (IF f[i] = 0 THEN 0 ELSE sc[i][f[i]])

\* the total score of alignment f of n detected and m expected tokens: the
\* scores of its pairs, and the gap penalty for every detected and every
\* expected token left unpaired
TotalScore(f, sc, n, m) ==
    LET paired == Cardinality({i \in 1..n : f[i] # 0})
    IN  SumPairs(f, sc, n) + GAP_PENALTY * ((n - paired) + (m - paired))

\* the alignment the list al of pairs <<expected index, detected index>>
\* stands for
AsAlignment(al, n) ==
    [i \in 1..n |->
        IF \E k \in 1..Len(al) : al[k][2] = i - 1
        THEN al[CHOOSE k \in 1..Len(al) : al[k][2] = i - 1][1] + 1
        ELSE 0]

\* align_words_dp reads the words of the detected tokens, never their
\* times (lines 94-123): all alignments are enumerated on the inputs whose
\* detected tokens all span the first interval
FirstInterval == \A i \in 1..Len(words) : words[i].start = 0

\* C15: when the band covers all columns, dp[n][m] is the greatest total
\* score of a monotone alignment of the detected and the expected tokens,
\* the base row and column hold the cumulative gap cost (dp[i][0] = -i,
\* dp[0][j] = -j), and the alignment align_words_dp returns has total score
\* dp[n][m].
C15_OptimalInsideBand ==
    (Aligned /\ Bandwidth(Len(expected)) >= Len(expected)) =>
        LET n == Len(words)
            m == Len(expected)
            sc == PairScores(words, expected)
        IN  /\ \A i \in 0..n : dp[i + 1][0].v = -i
            /\ \A j \in 0..m : dp[1][j].v = -j
            /\ FirstInterval =>
                  \A f \in AlignmentsOf[n][m] :
                     TotalScore(f, sc, n, m) <= dp[n + 1][m].v
            /\ Len(alignment) = m
            /\ AsAlignment(alignment, n) \in AlignmentsOf[n][m]
            /\ TotalScore(AsAlignment(alignment, n), sc, n, m) = dp[n + 1][m].v

\* detected a, b against expected ab, ".", b: a partial match, a skipped
\* expected token and a match, 1 - 1 + 2
C15_Witness ==
    /\ Aligned /\ FirstInterval
    /\ Len(words) = 2 /\ words[1].word = <<"a">> /\ words[2].word = <<"b">>
    /\ expected = << <<"a", "b">>, <<".">>, <<"b">> >>
    /\ dp[3][3].v = 2
    /\ alignment = << <<0, 0>>, <<1, NoIdx>>, <<2, 1>> >>

\* lines 128-137 without the output: the loop started at (i, j) reaches
\* (0, 0) within fuel iterations
RECURSIVE LoopReaches00(_, _, _, _)
LoopReaches00(tab, i, j, fuel) ==
    IF ~(i > 0 \/ j > 0) THEN TRUE
    ELSE IF fuel = 0 THEN FALSE
    ELSE IF i > 0 /\ j > 0 /\ tab[i + 1][j].bt = 0
         THEN LoopReaches00(tab, i - 1, j - 1, fuel - 1)
    ELSE IF i > 0 /\ (j = 0 \/ tab[i + 1][j].bt = 1)
         THEN LoopReaches00(tab, i - 1, j, fuel - 1)
    ELSE LoopReaches00(tab, i, j - 1, fuel - 1)

\* C16: the list align_words_dp returns holds exactly m pairs, the k-th with
\* expected index k - 1; its detected indices that are not None lie in
\* 0..n-1 and increase strictly; a skipped detected token leaves no pair;
\* and the backtrack loop reaches (0, 0), within n + m iterations, for
\* every n and m, 0 included.
C16_BacktrackShape ==
    Aligned =>
          LET n == Len(words)
              m == Len(expected)
          IN  /\ LoopReaches00(dp, n, m, n + m)
              /\ Len(alignment) = m
              /\ \A k \in 1..m :
                    /\ alignment[k][1] = k - 1
                    /\ alignment[k][2] = NoIdx
                          \/ (0 <= alignment[k][2] /\ alignment[k][2] < n)
              /\ \A k1 \in 1..m, k2 \in 1..m :
                    (k1 < k2 /\ alignment[k1][2] # NoIdx
                             /\ alignment[k2][2] # NoIdx)
                       => alignment[k1][2] < alignment[k2][2]

\* detected a, b against expected b: a is skipped and leaves no pair
C16_Witness ==
    /\ Aligned
    /\ Len(words) = 2 /\ words[1].word = <<"a">> /\ words[2].word = <<"b">>
    /\ expected = << <<"b">> >>
    /\ dp[3][1].bt = 0 /\ dp[2][0].bt = 1
    /\ alignment = << <<0, 1>> >>

\* the three options of the cell (i, j), from the values the table holds
DiagOption(i, j) ==
    Plus(dp[i][j - 1].v,
         Score(normalize(words[i].word), normalize(expected[j])))
UpOption(i, j) == Plus(dp[i][j].v, GAP_PENALTY)
LeftOption(i, j) == Plus(dp[i + 1][j - 1].v, GAP_PENALTY)

\* the pairs met from (i, j) to (0, 0) by following nothing but the choice
\* recorded in each cell: 0 to (i - 1, j - 1) with a pair, 1 to (i - 1, j)
\* with none, 2 to (i, j - 1) with a pair whose detected index is None
RECURSIVE FollowRecorded(_, _, _)
FollowRecorded(tab, i, j) ==
    IF i = 0 /\ j = 0 THEN <<>>
    ELSE IF tab[i + 1][j].bt = 0
         THEN Append(FollowRecorded(tab, i - 1, j - 1), <<j - 1, i - 1>>)
    ELSE IF tab[i + 1][j].bt = 1
         THEN FollowRecorded(tab, i - 1, j)
    ELSE Append(FollowRecorded(tab, i, j - 1), <<j - 1, NoIdx>>)

\* C17: every evaluated cell records the diagonal step when the diagonal
\* option equals the maximum, else the skip of the detected token (from
\* dp[i-1][j]) when that option equals the maximum, else the skip of the
\* expected token (from dp[i][j-1]); and the backtrack follows the recorded
\* choice of every cell it visits.
C17_TieBreak ==
    Aligned =>
        LET n == Len(words)
            m == Len(expected)
        IN  /\ \A i \in 1..n, j \in 1..m :
                  InBand(i, j, n, m) =>
                     LET best == Max3(DiagOption(i, j), UpOption(i, j),
                                      LeftOption(i, j))
                     IN  /\ dp[i + 1][j].v = best
                         /\ dp[i + 1][j].bt =
                               (IF DiagOption(i, j) = best THEN 0
                                ELSE IF UpOption(i, j) = best THEN 1
                                ELSE 2)
            /\ alignment = FollowRecorded(dp, n, m)

\* a cell where the two skips tie above the diagonal and the skip of the
\* detected token is recorded, and a cell where the diagonal ties with a skip
\* and is recorded
C17_Witness ==
    /\ Aligned
    /\ \E i \in 1..Len(words), j \in 1..Len(expected) :
          /\ UpOption(i, j) = LeftOption(i, j)
          /\ DiagOption(i, j) < UpOption(i, j)
          /\ dp[i + 1][j].bt = 1
    /\ \E i \in 1..Len(words), j \in 1..Len(expected) :
          /\ DiagOption(i, j) = UpOption(i, j) \/ DiagOption(i, j) = LeftOption(i, j)
          /\ DiagOption(i, j) >= UpOption(i, j)
          /\ DiagOption(i, j) >= LeftOption(i, j)
          /\ dp[i + 1][j].bt = 0

\* the number of expected tokens the first h entries of hist assign
RECURSIVE Assigned(_, _)
Assigned(hs, h) == IF h = 0 THEN 0 ELSE Assigned(hs, h - 1) + hs[h][3]

\* the segment loop of the distributor has ended, on at least one segment
\* and one expected token
SegmentLoopEnded ==
    /\ mode = "dist"
    /\ segments # <<>> /\ expected # <<>>
    /\ pc = "done" \/ (pc = "loop" /\ st_idx = Len(segments))

\* C18: when the segment loop ends the numbers of tokens assigned to the
\* segments sum to the number of expected tokens; every segment but the last
\* got max(1, round(share * total)) capped by what remained, the last got all
\* that remained, a segment left nothing got none; and the list returned
\* holds these tokens only, none from the 0.3 s extension.
C18_CountsReconcile ==
    SegmentLoopEnded =>
        LET total == Len(expected)
            last == Len(segments) - 1
        IN  /\ Assigned(hist, Len(hist)) = total
            /\ Len(out) = Assigned(hist, Len(hist))
            /\ \A h \in 1..Len(hist) :
                  LET seg_i == hist[h][1]
                      e0 == hist[h][2]
                      n == hist[h][3]
                      share == Round(Max(Len(segments[seg_i + 1].text), 1) * total,
                                     TotalSegWords(segments))
                  IN  /\ e0 = Assigned(hist, h - 1)
                      /\ n >= 1
                      /\ h > 1 => hist[h - 1][1] < seg_i
                      /\ n = (IF seg_i = last THEN total - e0
                              ELSE Min(Max(1, share), total - e0))
            /\ \A seg_i \in 0..last :
                  (\A h \in 1..Len(hist) : hist[h][1] # seg_i) =>
                     \E h \in 1..Len(hist) :
                        /\ hist[h][1] < seg_i
                        /\ Assigned(hist, h) = total

\* three segments counting one, two and two words, and four expected
\* tokens: the first takes round(4/5) = 1, the second round(8/5) = 2, the
\* last the remaining 1
C18_Witness ==
    /\ mode = "dist" /\ pc = "done"
    /\ Len(segments) = 3
    /\ Len(segments[1].text) = 0 /\ Len(segments[2].text) = 2
    /\ Len(segments[3].text) = 2
    /\ Len(expected) = 4
    /\ hist = << <<0, 0, 1>>, <<1, 1, 2>>, <<2, 3, 1>> >>
    /\ Len(out) = 4

\* the number of k < min(5, L) for which the sub-token at s + k exists and
\* equals the k-th normalized word of the sentence (k from 0)
MatchCount(sentence, s) ==
    Cardinality({ k \in 0..(Min(5, Len(sentence)) - 1) :
                    /\ s + k < Len(words)
                    /\ words[s + k + 1].word = normalize_text(sentence[k + 1]) })

NllbEnded == entry = "nllb_translate" /\ pc = "exit" /\ Logged("MODEL_READY")

\* the paragraphs, of the first i, that raised, and the chunks that raised
RECURSIVE FailedAmong(_, _)
FailedAmong(i, chunks_too) ==
    IF i = 0 THEN 0
    ELSE hist[i][1] + (IF chunks_too THEN hist[i][2] ELSE 0)
         + FailedAmong(i - 1, chunks_too)

\* the units that failed
FailedUnits == FailedAmong(Len(hist), TRUE)

\* the paragraphs that raised
FailedParagraphs == FailedAmong(Len(hist), FALSE)

\* C20: whatever paragraphs or chunks fail, every paragraph is processed,
\* the output array has the length and order of the input array, a failed
\* paragraph, and a paragraph all of whose chunks failed, is its original
\* text, 'errors' is the number of units that failed, and the run ends with
\* a success result.
C20_FailureIsolation ==
    NllbEnded =>
        /\ st_idx = Len(expected) /\ Len(out) = Len(expected)
        /\ \A i \in 1..Len(expected) :
              \/ hist[i][1] = 1
              \/ expected[i] # <<>>
                 /\ hist[i][2] = Len(NllbChunks(expected[i]))
              => out[i] = expected[i]
        /\ result.success /\ exit_code = 0
        /\ result.errors = FailedUnits

\* what the code does keep: all of the above with 'errors' the number of
\* paragraphs that raised
NllbParagraphErrorsCounted ==
    NllbEnded =>
        /\ st_idx = Len(expected) /\ Len(out) = Len(expected)
        /\ \A i \in 1..Len(expected) :
              \/ hist[i][1] = 1
              \/ expected[i] # <<>>
                 /\ hist[i][2] = Len(NllbChunks(expected[i]))
              => out[i] = expected[i]
        /\ result.success /\ exit_code = 0
        /\ result.errors = FailedParagraphs

\* a run where one paragraph raised and, in another, one chunk of two
NllbMixedFailures ==
    /\ NllbEnded
    /\ expected = << <<"s">>, <<"L", "L">> >>
    /\ hist = << <<1, 0>>, <<0, 1>> >>
    /\ out = << <<"s">>, <<"L", "M">> >>
    /\ result.errors = 1

\* C21: in align_stable_words_to_expected with at least one detected token,
\* the two cursors are equal at the start of every iteration of the main
\* loop and an iteration advances each by exactly one; so the function
\* returns, for every expected token below min(n, m), exactly the interval
\* of the detected token of the same index, and only the expected tokens
\* from n on are left to the interpolation.
C21_CursorsInLockstep ==
    [][(mode = "greedy" /\ words # <<>>) =>
          /\ pc = "loop" => exp_idx = st_idx
          /\ (pc = "loop" /\ pc' = "loop") =>
                /\ exp_idx' = exp_idx + 1
                /\ st_idx' = st_idx + 1
          /\ pc' = "done" =>
                /\ Len(out') = Len(expected)
                /\ \A k \in 1..Len(expected) :
                      IF k <= Len(words)
                      THEN /\ timestamps'[k] = TS(words[k].start, words[k].end)
                           /\ out'[k] = timestamps'[k]
                      ELSE timestamps'[k] = None]_vars

\* two detected tokens that together spell the first of three expected
\* tokens: the first two expected tokens take the two detected intervals,
\* the third is interpolated
C21_Witness ==
    /\ mode = "greedy" /\ pc = "done"
    /\ Len(words) = 2 /\ Len(expected) = 3
    /\ normalize(words[1].word) \o normalize(words[2].word)
          = normalize(expected[1])
    /\ normalize(words[2].word) # normalize(expected[2])
    /\ exp_idx = 3 /\ st_idx = 2
    /\ out[1] = TS(words[1].start, words[1].end)
    /\ out[2] = TS(words[2].start, words[2].end)
    /\ timestamps[3] = None /\ out[3] # None

\* the detected tokens are ordered, with non-negative intervals that do not
\* overlap: 0 <= start_i <= end_i <= start_{i+1}
WellOrdered ==
    \A i \in 1..Len(words) :
        /\ 0 <= words[i].start /\ words[i].start <= words[i].end
        /\ i < Len(words) => words[i].end <= words[i + 1].start

\* C22: on well-ordered detected tokens, what interpolate_timestamps returns
\* for the alignment of align_words_dp never goes back in time: every entry
\* ends no earlier than it starts, and every entry ends no later than the
\* next one starts, between matched and interpolated entries too.
C22_MonotoneOutput ==
    (mode = "dp" /\ Done /\ WellOrdered) =>
        /\ Len(out) = Len(expected)
        /\ \A i \in 1..Len(out) : Start(out[i]) <= End(out[i])
        /\ \A i \in 1..(Len(out) - 1) : End(out[i]) <= Start(out[i + 1])

\* two well-ordered detected tokens matched by the first and the third of
\* three expected tokens; the second is interpolated between them
C22_Witness ==
    /\ mode = "dp" /\ Done /\ WellOrdered
    /\ Len(words) = 2 /\ Len(expected) = 3
    /\ timestamps[1] # None /\ timestamps[2] = None /\ timestamps[3] # None
    /\ End(out[1]) <= Start(out[2]) /\ End(out[2]) <= Start(out[3])

\* detected tokens out of order: the second lies before the first
C22_IllOrdered ==
    /\ mode = "dp" /\ Done /\ ~WellOrdered
    /\ \E i \in 1..(Len(out) - 1) : End(out[i]) > Start(out[i + 1])

\* C23: a sentence met with the pointer at the length N of the sub-token
\* stream moves nothing (start, span end and pointer stay N) and is emitted,
\* N >= 1, from 0 to the end time of the last sub-token, and, N = 0, as
\* [0, 0].
C23_ExhaustedStream ==
    (mode = "sent" /\ pc # "start") =>
        LET N == Len(words)
        IN  \A h \in 1..Len(hist) :
               hist[h][1] = N =>
                  /\ h <= Len(out)
                  /\ hist[h] = <<N, N, N>>
                  /\ out[h] = (IF N >= 1 THEN TS(0, words[N].end) ELSE TS(0, 0))

\* the first sentence takes the last sub-token, which starts after 0; the
\* second meets the exhausted stream and starts before the first
C23_Witness ==
    /\ mode = "sent" /\ Done
    /\ Len(words) >= 2 /\ Len(hist) = 2
    /\ hist[1][3] = Len(words) /\ hist[2][1] = Len(words)
    /\ Start(out[1]) > 0
    /\ Start(out[2]) = 0 /\ Start(out[2]) < Start(out[1])
    /\ End(out[2]) = words[Len(words)].end /\ End(out[2]) > 0

\* no sub-token at all: two sentences, both [0, 0]
C23_EmptyStream ==
    /\ mode = "sent" /\ Done
    /\ words = <<>>
    /\ Len(expected) = 2 /\ out = << TS(0, 0), TS(0, 0) >>

=============================================================================
